---- MODULE Spec2Model ----
(***************************************************************************)
(* One invocation of pirkle (src/src/main.rs): classify the file           *)
(* arguments, load every source into the in-memory connection, then show   *)
(* schemas / run the query / save the database.                            *)
(*                                                                         *)
(* Strings (CLI tokens, paths, query text, table names, the bytes of       *)
(* standard input) are sequences of one-character strings, so that prefix  *)
(* stripping, trimming, file stems and extensions are computed, not        *)
(* assumed.                                                                *)
(***************************************************************************)
EXTENDS Integers, Sequences, FiniteSets, TLC

\* The longest list of positional file arguments explored.
MaxArgs == 2

----------------------------------------------------------------------------
\* String helpers (str::strip_prefix, str::trim, str::ends_with, Path).

NoneVal == <<"None">>
Some(v) == <<"Some", v>>
IsSome(o) == o[1] = "Some"
Unwrap(o) == o[2]

StartsWith(s, p) ==
    /\ Len(s) >= Len(p)
    /\ SubSeq(s, 1, Len(p)) = p

EndsWith(s, p) ==
    /\ Len(s) >= Len(p)
    /\ SubSeq(s, Len(s) - Len(p) + 1, Len(s)) = p

\* str::strip_prefix: Some(rest) when s starts with p, None otherwise.
strip_prefix(s, p) ==
    IF StartsWith(s, p) THEN Some(SubSeq(s, Len(p) + 1, Len(s))) ELSE NoneVal

Whitespace == {" ", "\n", "\t"}

\* str::trim: drop leading and trailing whitespace.
trim(s) ==
    LET keep == {i \in 1..Len(s) : s[i] \notin Whitespace}
    IN  IF keep = {} THEN <<>>
        ELSE LET lo == CHOOSE i \in keep : \A k \in keep : i <= k
                 hi == CHOOSE i \in keep : \A k \in keep : i >= k
             IN  SubSeq(s, lo, hi)

\* Largest index of character c in s, 0 when absent.
LastIndexOf(s, c) ==
    LET at == {i \in 1..Len(s) : s[i] = c}
    IN  IF at = {} THEN 0 ELSE CHOOSE i \in at : \A k \in at : i >= k

\* Path::file_name: the component after the last separator.
file_name(p) == SubSeq(p, LastIndexOf(p, "/") + 1, Len(p))

\* Path::file_stem: the file name without its last extension (a leading
\* dot does not start an extension).
file_stem(p) ==
    LET n == file_name(p)
        d == LastIndexOf(n, ".")
    IN  IF d <= 1 THEN n ELSE SubSeq(n, 1, d - 1)

\* Path::extension: Some(text after the last dot of the file name).
extension(p) ==
    LET n == file_name(p)
        d == LastIndexOf(n, ".")
    IN  IF d <= 1 THEN NoneVal ELSE Some(SubSeq(n, d + 1, Len(n)))

----------------------------------------------------------------------------
\* The command-line tokens and the file system of the explored runs.

TokStdin      == <<"s","t","d","i","n">>
StdinPrefix   == <<"s","t","d","i","n",":">>
TokStdinA     == StdinPrefix \o <<"a">>
TokStdinB     == StdinPrefix \o <<"b">>
PathACsv      == <<"a",".","c","s","v">>
PathDirACsv   == <<"d","/","a",".","c","s","v">>
PathADb       == <<"a",".","d","b">>
PathMissing   == <<"n",".","c","s","v">>

Tokens ==
    {TokStdin, StdinPrefix, TokStdinA, TokStdinB,
     PathACsv, PathDirACsv, PathADb, PathMissing}

\* Files present on disk, with their contents.
ExistingFiles == {PathACsv, PathDirACsv, PathADb}

exists(p) == p \in ExistingFiles

FileContent(p) ==
    CASE p = PathACsv    -> <<"h","\n","1">>
      [] p = PathDirACsv -> <<"h",",","k","\n","1",",","x","\n","2",",","y">>
      [] OTHER           -> <<>>

\* What may be piped into standard input.
StdinStreams ==
    { <<>>,
      <<"a">>,
      <<" ","\n">>,
      <<"h","\n","1">>,
      <<"h","\n","1",",","2">> }

ArgLists == UNION { [1..n -> Tokens] : n \in 0..MaxArgs }

----------------------------------------------------------------------------
\* Delimited-text reading (CsvReader ... infer_schema(Some(100))
\* .has_header(true).finish()) and the type mapper.

InferSchemaLength == 100

RECURSIVE SplitOn(_, _)
\* The pieces of s between occurrences of the separator c.
SplitOn(s, c) ==
    LET at == {i \in 1..Len(s) : s[i] = c}
    IN  IF at = {} THEN <<s>>
        ELSE LET i == CHOOSE k \in at : \A m \in at : k <= m
             IN  <<SubSeq(s, 1, i - 1)>> \o SplitOn(SubSeq(s, i + 1, Len(s)), c)

RECURSIVE SelectLines(_)
\* The non-empty lines of seq, in order (blank lines carry no record).
SelectLines(seq) ==
    IF seq = <<>> THEN <<>>
    ELSE IF Head(seq) = <<>> THEN SelectLines(Tail(seq))
         ELSE <<Head(seq)>> \o SelectLines(Tail(seq))

Digits == {"0", "1", "2", "3", "4", "5", "6", "7", "8", "9"}

IsIntegerText(cell) == cell # <<>> /\ \A i \in 1..Len(cell) : cell[i] \in Digits

\* The polars types the reader infers here, and the others the mapper knows.
DataTypes ==
    {"Int8", "Int16", "Int32", "Int64", "UInt8", "UInt16", "UInt32", "UInt64",
     "Float32", "Float64", "Decimal", "Date", "Datetime", "Time", "Boolean",
     "String", "List", "Binary", "Null", "Duration", "Categorical", "Struct"}

\* A mapper without the binary arm: binary columns fall to the default.
polars_to_sqlite_type_without_blob(dtype) ==
    CASE dtype \in {"Int8", "Int16", "Int32", "Int64",
                    "UInt8", "UInt16", "UInt32", "UInt64"} -> "INTEGER"
      [] dtype \in {"Float32", "Float64"} -> "REAL"
      [] dtype = "Decimal" -> "REAL"
      [] dtype = "Boolean" -> "INTEGER"
      [] OTHER -> "TEXT"

polars_to_sqlite_type(dtype) ==
    CASE dtype \in {"Int8", "Int16", "Int32", "Int64",
                    "UInt8", "UInt16", "UInt32", "UInt64"} -> "INTEGER"
      [] dtype \in {"Float32", "Float64"} -> "REAL"
      [] dtype = "Decimal" -> "REAL"
      [] dtype \in {"Date", "Datetime"} -> "TEXT"
      [] dtype = "Time" -> "TEXT"
      [] dtype = "Boolean" -> "INTEGER"
      [] dtype = "String" -> "TEXT"
      [] dtype = "List" -> "TEXT"
      [] dtype = "Binary" -> "BLOB"
      [] OTHER -> "TEXT"

\* A data frame read from bytes: [ok, names, dtypes, rows], rows padded with
\* nulls (the empty cell) to the header's width.  An empty input or a row
\* with more fields than the header is a read error.
ReadCsv(data) ==
    LET lines  == SplitOn(data, "\n")
        header == SplitOn(lines[1], ",")
        raw    == [i \in 1..Len(SelectLines(Tail(lines))) |->
                      SplitOn(SelectLines(Tail(lines))[i], ",")]
        width  == Len(header)
        rows   == [i \in 1..Len(raw) |->
                      [c \in 1..width |->
                          IF c <= Len(raw[i]) THEN raw[i][c] ELSE <<>>]]
        sample == {i \in 1..Len(rows) : i <= InferSchemaLength}
        dtype(c) ==
            IF /\ \E i \in sample : rows[i][c] # <<>>
               /\ \A i \in sample : rows[i][c] = <<>> \/ IsIntegerText(rows[i][c])
            THEN "Int64" ELSE "String"
    IN  IF data = <<>> \/ \E i \in 1..Len(raw) : Len(raw[i]) > width
        THEN [ok |-> FALSE, names |-> <<>>, dtypes |-> <<>>, rows |-> <<>>]
        ELSE [ok |-> TRUE, names |-> header,
              dtypes |-> [c \in 1..width |-> dtype(c)], rows |-> rows]

----------------------------------------------------------------------------
\* The SQLite connection: the tables of the main schema in creation order
\* and the aliases of the attached databases.

EmptyConn == [tables |-> <<>>, attached |-> <<>>]

TableNames(c) == {c.tables[i].name : i \in 1..Len(c.tables)}

TableNamed(c, name) ==
    c.tables[CHOOSE i \in 1..Len(c.tables) : c.tables[i].name = name]

\* A loader that inserts into the table already there instead of failing.
CreateOrAppend(c, name, df) ==
    LET made == [name    |-> name,
                 columns |-> [i \in 1..Len(df.names) |->
                                <<df.names[i], polars_to_sqlite_type(df.dtypes[i])>>],
                 rows    |-> df.rows]
    IN  IF name \in TableNames(c)
        THEN [ok |-> TRUE, err |-> "",
              conn |-> [c EXCEPT !.tables =
                  [i \in 1..Len(c.tables) |->
                      IF c.tables[i].name = name
                      THEN [c.tables[i] EXCEPT !.rows = @ \o df.rows]
                      ELSE c.tables[i]]]]
        ELSE [ok |-> TRUE, err |-> "", conn |-> [c EXCEPT !.tables = Append(@, made)]]

\* CREATE TABLE '<name>' (<columns>) followed by one INSERT per row.
\* The statement fails when the main schema already holds the name.
CreateAndFill(c, name, df) ==
    IF name \in TableNames(c)
    THEN [ok |-> FALSE, err |-> "DuplicateTable", conn |-> c]
    ELSE [ok |-> TRUE, err |-> "",
          conn |-> [c EXCEPT !.tables = Append(@,
              [name    |-> name,
               columns |-> [i \in 1..Len(df.names) |->
                              <<df.names[i], polars_to_sqlite_type(df.dtypes[i])>>],
               rows    |-> df.rows])]]

\* load_csv_with_polars / load_csv_from_memory_with_polars: read the bytes,
\* create the table, insert every row.
LoadCsvBytes(c, name, data) ==
    LET df == ReadCsv(data)
    IN  IF ~df.ok THEN [ok |-> FALSE, err |-> "ParseError", conn |-> c]
        ELSE CreateAndFill(c, name, df)

load_csv_with_polars(c, table_name, path) ==
    LoadCsvBytes(c, table_name, FileContent(path))

\* A reader over a shared cursor that is not rewound: every table after
\* the first starts after the header line.
load_csv_from_memory_unrewound(c, table_name, data) ==
    LET nl == {i \in 1..Len(data) : data[i] = "\n"}
        after == IF nl = {} THEN <<>>
                 ELSE SubSeq(data, (CHOOSE i \in nl : \A k \in nl : i <= k) + 1, Len(data))
    IN  LoadCsvBytes(c, table_name, IF c.tables = <<>> THEN data ELSE after)

load_csv_from_memory_with_polars(c, table_name, data) ==
    LoadCsvBytes(c, table_name, data)

\* ATTACH DATABASE '<path>' AS '<alias>': fails when the alias is in use.
AttachDatabase(c, path, alias) ==
    IF \E i \in 1..Len(c.attached) : c.attached[i] = alias
    THEN [ok |-> FALSE, err |-> "AttachError", conn |-> c]
    ELSE [ok |-> TRUE, err |-> "",
          conn |-> [c EXCEPT !.attached = Append(@, alias)]]

IsDatabaseFile(p) ==
    LET e == extension(p)
    IN  IsSome(e) /\ Unwrap(e) \in {<<"s","q","l","i","t","e">>, <<"d","b">>}

----------------------------------------------------------------------------
\* The collaborators behind run_query: the PRQL compiler, the engine and
\* the four encoders.

Letters == {"a", "b", "c", "d", "h", "i", "k", "n", "s", "t", "x", "y"}

\* prqlc::compile: a pipeline "from <table>" is written here as the table's
\* name; any other text is rejected by the compiler.
PrqlCompile(text) ==
    LET t == trim(text)
    IN  IF t # <<>> /\ \A i \in 1..Len(t) : t[i] \in Letters
        THEN [ok |-> TRUE, sql |-> t]
        ELSE [ok |-> FALSE, sql |-> <<>>]

compile_prql(query) ==
    IF EndsWith(query, <<".","p","r","q","l">>) /\ exists(query)
    THEN PrqlCompile(FileContent(query))
    ELSE PrqlCompile(query)

\* A stored cell as run_query collects it: None for NULL, Some(text) else.
CollectCell(cell) == IF cell = <<>> THEN NoneVal ELSE Some(cell)

\* A table printer without the early return for an empty result.
print_table_without_empty_case(headers, rows) ==
    << <<"table", "header", headers>>, <<"table", "separator", <<>>>> >>
    \o [i \in 1..Len(rows) |-> <<"table", "row", rows[i]>>]

\* One output line per element; each line is <<mode, kind, payload>>.
print_table(headers, rows) ==
    IF rows = <<>> THEN << <<"table", "no_results", <<>>>> >>
    ELSE << <<"table", "header", headers>>, <<"table", "separator", <<>>>> >>
         \o [i \in 1..Len(rows) |-> <<"table", "row", rows[i]>>]

Encode(format, column_names, collected_rows) ==
    CASE format = "csv" ->
           << <<"csv", "header", column_names>> >>
           \o [i \in 1..Len(collected_rows) |-> <<"csv", "row", collected_rows[i]>>]
      [] format = "jsonl" ->
           [i \in 1..Len(collected_rows) |-> <<"jsonl", "row", collected_rows[i]>>]
      [] format = "logfmt" ->
           [i \in 1..Len(collected_rows) |-> <<"logfmt", "row", collected_rows[i]>>]
      [] OTHER -> print_table(column_names, collected_rows)

Formats == {"table", "csv", "jsonl", "logfmt"}

\* A run_query whose --show-sql branch prints the SQL and forgets to return.
run_query_show_sql_falls_through(c, query_str, fmt, showsql) ==
    LET compiled == compile_prql(query_str)
        printed  == IF showsql /\ compiled.ok
                    THEN << <<"sql", "text", compiled.sql>> >> ELSE <<>>
    IN  IF ~compiled.ok
        THEN [ok |-> FALSE, err |-> "CompileError", out |-> <<>>,
              ev |-> << <<"compile", query_str>> >>]
        ELSE IF compiled.sql \notin TableNames(c)
        THEN [ok |-> FALSE, err |-> "ExecutionError", out |-> printed,
              ev |-> << <<"compile", query_str>>, <<"prepare", compiled.sql>> >>]
        ELSE LET t    == TableNamed(c, compiled.sql)
                 rows == [i \in 1..Len(t.rows) |->
                            [k \in 1..Len(t.rows[i]) |-> CollectCell(t.rows[i][k])]]
                 cols == [k \in 1..Len(t.columns) |-> t.columns[k][1]]
             IN  [ok |-> TRUE, err |-> "", out |-> printed \o Encode(fmt, cols, rows),
                  ev |-> << <<"compile", query_str>>, <<"prepare", compiled.sql>>,
                            <<"query", compiled.sql>> >>]

\* run_query: [ok, err, out, ev]; out is what reaches stdout, ev the calls
\* made on the compiler and the engine.
run_query(c, query_str, fmt, showsql) ==
    LET compiled == compile_prql(query_str)
    IN  IF ~compiled.ok
        THEN [ok |-> FALSE, err |-> "CompileError", out |-> <<>>,
              ev |-> << <<"compile", query_str>> >>]
        ELSE IF showsql
        THEN [ok |-> TRUE, err |-> "", out |-> << <<"sql", "text", compiled.sql>> >>,
              ev |-> << <<"compile", query_str>> >>]
        ELSE IF compiled.sql \notin TableNames(c)
        THEN [ok |-> FALSE, err |-> "ExecutionError", out |-> <<>>,
              ev |-> << <<"compile", query_str>>, <<"prepare", compiled.sql>> >>]
        ELSE LET t    == TableNamed(c, compiled.sql)
                 rows == [i \in 1..Len(t.rows) |->
                            [k \in 1..Len(t.rows[i]) |-> CollectCell(t.rows[i][k])]]
                 cols == [k \in 1..Len(t.columns) |-> t.columns[k][1]]
             IN  [ok |-> TRUE, err |-> "", out |-> Encode(fmt, cols, rows),
                  ev |-> << <<"compile", query_str>>, <<"prepare", compiled.sql>>,
                            <<"query", compiled.sql>> >>]

\* Lexicographic order on names, for ORDER BY name.
CharOrder == <<"a", "b", "c", "d", "h", "i", "k", "n", "s", "t", "x", "y">>

CharRank(ch) ==
    IF \E i \in 1..Len(CharOrder) : CharOrder[i] = ch
    THEN CHOOSE i \in 1..Len(CharOrder) : CharOrder[i] = ch
    ELSE 0

RECURSIVE NameLess(_, _)
NameLess(s, t) ==
    IF s = <<>> THEN t # <<>>
    ELSE IF t = <<>> THEN FALSE
    ELSE IF Head(s) = Head(t) THEN NameLess(Tail(s), Tail(t))
    ELSE CharRank(Head(s)) < CharRank(Head(t))

RECURSIVE SortNames(_)
SortNames(names) ==
    IF names = {} THEN <<>>
    ELSE LET m == CHOOSE n \in names : \A o \in names \ {n} : NameLess(n, o)
         IN  <<m>> \o SortNames(names \ {m})

\* show_schemas: one entry per table of the main schema, ordered by name;
\* tables_shown is never set, so the closing note is printed whenever
\* inputs were given.
show_schemas(c, rfiles, stables) ==
    LET names == SortNames(TableNames(c))
        loadable ==
            \/ \E i \in 1..Len(rfiles) :
                 LET e == extension(rfiles[i])
                 IN  IsSome(e) /\ Unwrap(e) \in {<<"c","s","v">>,
                                                 <<"s","q","l","i","t","e">>,
                                                 <<"d","b">>}
            \/ stables # <<>>
    IN  IF names = <<>> THEN << <<"schema", "no_tables", <<>>>> >>
        ELSE [i \in 1..Len(names) |->
                 <<"schema", "table", <<names[i], TableNamed(c, names[i]).columns>>>>]
             \o (IF rfiles # <<>> \/ stables # <<>>
                 THEN IF loadable
                      THEN << <<"schema", "note_load_errors", <<>>>> >>
                      ELSE IF rfiles # <<>>
                           THEN << <<"schema", "note_unsupported", <<>>>> >>
                           ELSE <<>>
                 ELSE <<>>)

----------------------------------------------------------------------------
\* The state of one invocation.

VARIABLES
    files,                  \* cli.files
    query,                  \* cli.query (Option)
    query_after_delimiter,  \* cli.query_after_delimiter (Option)
    schema,                 \* cli.schema
    format,                 \* cli.format    (read only where main calls run_query,
    show_sql,               \* cli.show_sql   so drawn there; clap's defaults before)
    output_db,              \* cli.output_db.is_some()
    is_tty,                 \* atty::is(Stream::Stdin)
    stdin_bytes,            \* the bytes piped into standard input
    stdin_ok,               \* FALSE when reading standard input fails
    stdin_pos,              \* bytes already taken out of the shared reader
    stdin_reads,            \* completed read_to_end / read_to_string calls
    pc,                     \* position in main
    regular_files,          \* process_file_arguments' first result
    stdin_tables,           \* process_file_arguments' second result
    file_idx,               \* load_all_data: next regular file
    stdin_data,             \* load_all_data: the buffer read from stdin
    table_idx,              \* load_all_data: next stdin table
    load_err,               \* load_all_data's result (None = Ok)
    conn,                   \* the in-memory connection
    action_taken,
    query_opt,
    query_from_stdin_attempted,
    events,                 \* calls made on the engine and the compiler
    stdout,
    stderr,
    exit_code,              \* -1 while running
    mapper_pc,              \* position in one use of the two converters
    dtype_in,               \* polars_to_sqlite_type's argument
    value_in,               \* convert_any_value_to_sql's argument
    storage_class,          \* polars_to_sqlite_type's result
    stored                  \* convert_any_value_to_sql's result

vars ==
    <<files, query, query_after_delimiter, schema, format, show_sql, output_db,
      is_tty, stdin_bytes, stdin_ok, stdin_pos, stdin_reads, pc, regular_files,
      stdin_tables, file_idx, stdin_data, table_idx, load_err, conn,
      action_taken, query_opt, query_from_stdin_attempted, events, stdout,
      stderr, exit_code, mapper_pc, dtype_in, value_in, storage_class, stored>>

cliVars == <<files, query, query_after_delimiter, schema, format, show_sql, output_db>>
mapperVars == <<mapper_pc, dtype_in, value_in, storage_class, stored>>
envVars == <<is_tty, stdin_bytes, stdin_ok, mapperVars>>

QueryArgs == {NoneVal, Some(<<>>), Some(<<"a">>)}
TrailingArgs == {NoneVal, Some(<<" ">>), Some(<<"!">>)}

Init ==
    /\ files \in ArgLists
    /\ query \in QueryArgs
    /\ query_after_delimiter \in TrailingArgs
    /\ schema \in BOOLEAN
    /\ format = "table"
    /\ show_sql = FALSE
    /\ output_db \in BOOLEAN
    /\ is_tty \in BOOLEAN
    /\ stdin_bytes \in StdinStreams
    /\ stdin_ok \in BOOLEAN
    /\ is_tty => stdin_bytes = <<>> /\ stdin_ok
    /\ ~stdin_ok => stdin_bytes = <<>>
    /\ stdin_pos = 0
    /\ stdin_reads = 0
    /\ pc = "classify"
    /\ regular_files = <<>>
    /\ stdin_tables = <<>>
    /\ file_idx = 1
    /\ stdin_data = <<>>
    /\ table_idx = 1
    /\ load_err = NoneVal
    /\ conn = EmptyConn
    /\ action_taken = FALSE
    /\ query_opt = NoneVal
    /\ query_from_stdin_attempted = FALSE
    /\ events = <<>>
    /\ stdout = <<>>
    /\ stderr = <<>>
    /\ exit_code = -1
    /\ mapper_pc = "off"
    /\ dtype_in = "Null"
    /\ value_in = <<"Null", <<>>>>
    /\ storage_class = ""
    /\ stored = <<>>

\* The process ends: main returned Err (code 1, "Error: ..." on stderr),
\* called process::exit, or returned Ok (code 0).
Exit(code, messages) ==
    /\ pc' = "exit"
    /\ exit_code' = code
    /\ stderr' = stderr \o messages

----------------------------------------------------------------------------
\* Standard input: one process-wide buffered reader.

\* read_exact of one byte: Ok and the byte is taken, or Err at end of input.
StdinReadExact1 ==
    IF stdin_ok /\ stdin_pos < Len(stdin_bytes)
    THEN [ok |-> TRUE, pos |-> stdin_pos + 1]
    ELSE [ok |-> FALSE, pos |-> stdin_pos]

\* read_to_end / read_to_string: everything not yet taken.
StdinReadToEnd ==
    IF stdin_ok
    THEN [ok |-> TRUE, data |-> SubSeq(stdin_bytes, stdin_pos + 1, Len(stdin_bytes)),
          pos |-> Len(stdin_bytes)]
    ELSE [ok |-> FALSE, data |-> <<>>, pos |-> stdin_pos]

----------------------------------------------------------------------------
\* process_file_arguments

RECURSIVE ClassifyLoop(_, _, _)
\* The for loop over the tokens, from the collected lists so far.
ClassifyLoop(rest, rfiles, stables) ==
    IF rest = <<>> THEN [ok |-> TRUE, err |-> "", regular_files |-> rfiles,
                         stdin_tables |-> stables]
    ELSE LET file_str == Head(rest)
             custom   == strip_prefix(file_str, StdinPrefix)
         IN  IF file_str = TokStdin
             THEN ClassifyLoop(Tail(rest), rfiles, Append(stables, <<TokStdin, TokStdin>>))
             ELSE IF IsSome(custom)
             THEN IF Unwrap(custom) # <<>>
                  THEN ClassifyLoop(Tail(rest), rfiles,
                                    Append(stables, <<Unwrap(custom), TokStdin>>))
                  ELSE [ok |-> FALSE, err |-> "InvalidArgument",
                        regular_files |-> <<>>, stdin_tables |-> <<>>]
             ELSE IF ~exists(file_str)
                  THEN [ok |-> FALSE, err |-> "FileNotFound",
                        regular_files |-> <<>>, stdin_tables |-> <<>>]
                  ELSE ClassifyLoop(Tail(rest), Append(rfiles, file_str), stables)

\* A classifier that drops a missing file instead of failing.
ClassifyTokensSkippingMissing(tokens) ==
    ClassifyLoop(SelectSeq(tokens, LAMBDA t : StartsWith(t, TokStdin) \/ exists(t)),
                 <<>>, <<>>)

ClassifyTokens(tokens) == ClassifyLoop(tokens, <<>>, <<>>)

ProcessFileArguments ==
    /\ pc = "classify"
    /\ LET r == ClassifyTokens(files)
       IN  IF ~r.ok
           THEN /\ Exit(1, << <<"Error", r.err>> >>)
                /\ UNCHANGED <<regular_files, stdin_tables, stdin_pos>>
           ELSE /\ regular_files' = r.regular_files
                /\ IF r.stdin_tables = <<>> /\ r.regular_files = <<>> /\ ~is_tty
                   THEN LET peek == StdinReadExact1
                        IN  /\ stdin_pos' = peek.pos
                            /\ stdin_tables' =
                                 IF peek.ok THEN << <<TokStdin, TokStdin>> >>
                                 ELSE r.stdin_tables
                   ELSE /\ stdin_tables' = r.stdin_tables
                        /\ UNCHANGED stdin_pos
                /\ pc' = "load"
                /\ UNCHANGED <<stderr, exit_code>>
    /\ UNCHANGED <<cliVars, envVars, stdin_reads, file_idx, stdin_data, table_idx,
                   load_err, conn, action_taken, query_opt,
                   query_from_stdin_attempted, events, stdout>>

----------------------------------------------------------------------------
\* load_all_data

loadVars == <<file_idx, stdin_data, table_idx, load_err, conn>>

\* load_all_data returns: Ok(()) or the error of the failing statement.
LoadReturns(result) ==
    /\ load_err' = result
    /\ pc' = "loaded"

\* An iteration that walks the list from its end.
CurrentFileFromEnd == regular_files[Len(regular_files) + 1 - file_idx]

\* "for file in regular_files": the file of the current iteration.
CurrentFile == regular_files[file_idx]

\* One iteration of "for file in regular_files".
LoadRegularFile ==
    /\ pc = "load"
    /\ file_idx <= Len(regular_files)
    /\ LET file       == CurrentFile
           table_name == file_stem(file)
           r == IF IsDatabaseFile(file)
                THEN AttachDatabase(conn, file, table_name)
                ELSE load_csv_with_polars(conn, table_name, file)
           what == IF IsDatabaseFile(file) THEN "attach" ELSE "create"
       IN  IF r.ok
           THEN /\ conn' = r.conn
                /\ events' = Append(events, <<what, table_name>>)
                /\ file_idx' = file_idx + 1
                /\ UNCHANGED <<load_err, pc>>
           ELSE /\ LoadReturns(Some(r.err))
                /\ UNCHANGED <<conn, events, file_idx>>
    /\ UNCHANGED <<cliVars, envVars, stdin_pos, stdin_reads, regular_files,
                   stdin_tables, stdin_data, table_idx, action_taken, query_opt,
                   query_from_stdin_attempted, stdout, stderr, exit_code>>

\* After the files: "if !stdin_tables.is_empty()" up to the loop over the
\* stdin tables.
ReadStdinData ==
    /\ pc = "load"
    /\ file_idx > Len(regular_files)
    /\ IF stdin_tables = <<>>
       THEN /\ LoadReturns(NoneVal)
            /\ UNCHANGED <<stdin_data, stdin_pos, stdin_reads>>
       ELSE LET rd == IF ~is_tty THEN StdinReadToEnd
                      ELSE [ok |-> TRUE, data |-> <<>>, pos |-> stdin_pos]
            IN  IF ~rd.ok
                THEN /\ LoadReturns(Some("IoError"))
                     /\ UNCHANGED <<stdin_data, stdin_pos, stdin_reads>>
                ELSE /\ stdin_data' = rd.data
                     /\ stdin_pos' = rd.pos
                     /\ stdin_reads' = IF ~is_tty THEN stdin_reads + 1 ELSE stdin_reads
                     /\ IF rd.data = <<>> /\ ~is_tty
                        THEN LoadReturns(Some("MissingStdinData"))
                        ELSE IF rd.data # <<>>
                        THEN /\ pc' = "load_stdin_tables"
                             /\ UNCHANGED load_err
                        ELSE IF stdin_tables # <<>> /\ ~is_tty
                        THEN IF is_tty
                             THEN LoadReturns(Some("StdinIsTty"))
                             ELSE LoadReturns(NoneVal)
                        ELSE LoadReturns(NoneVal)
    /\ UNCHANGED <<cliVars, envVars, regular_files, stdin_tables, file_idx,
                   table_idx, conn, action_taken, query_opt,
                   query_from_stdin_attempted, events, stdout, stderr, exit_code>>

\* One iteration of "for (table_name, _) in stdin_tables".
LoadStdinTable ==
    /\ pc = "load_stdin_tables"
    /\ table_idx <= Len(stdin_tables)
    /\ LET table_name == stdin_tables[table_idx][1]
           r == load_csv_from_memory_with_polars(conn, table_name, stdin_data)
       IN  IF r.ok
           THEN /\ conn' = r.conn
                /\ events' = Append(events, <<"create", table_name>>)
                /\ table_idx' = table_idx + 1
                /\ IF table_idx = Len(stdin_tables)
                   THEN LoadReturns(NoneVal)
                   ELSE UNCHANGED <<load_err, pc>>
           ELSE /\ LoadReturns(Some(r.err))
                /\ UNCHANGED <<conn, events, table_idx>>
    /\ UNCHANGED <<cliVars, envVars, stdin_pos, stdin_reads, regular_files,
                   stdin_tables, file_idx, stdin_data, action_taken, query_opt,
                   query_from_stdin_attempted, stdout, stderr, exit_code>>

----------------------------------------------------------------------------
\* main, after process_file_arguments

\* A check that lets any run with --output-db continue after a load error.
LoadFailureIsFatalUnlessSaving == ~output_db

\* "if cli.output_db.is_none() || !regular_files.is_empty() || ..."
LoadFailureIsFatal ==
    ~output_db \/ regular_files # <<>> \/ stdin_tables # <<>>

\* "if let Err(e) = load_all_data(...)"
HandleLoadResult ==
    /\ pc = "loaded"
    /\ IF IsSome(load_err)
       THEN IF LoadFailureIsFatal
            THEN Exit(1, << <<"Error", "FailedToLoadData", Unwrap(load_err)>> >>)
            ELSE /\ pc' = "schema"
                 /\ stderr' = IF regular_files # <<>> \/ stdin_tables # <<>>
                              THEN Append(stderr, <<"Warning", "FailedToLoadData">>)
                              ELSE stderr
                 /\ UNCHANGED exit_code
       ELSE /\ pc' = "schema"
            /\ UNCHANGED <<stderr, exit_code>>
    /\ UNCHANGED <<cliVars, envVars, stdin_pos, stdin_reads, regular_files,
                   stdin_tables, loadVars, action_taken, query_opt,
                   query_from_stdin_attempted, events, stdout>>

\* "let mut action_taken = false; if cli.schema { show_schemas(..) }"
ShowSchemaFlag ==
    /\ pc = "schema"
    /\ IF schema
       THEN /\ stdout' = stdout \o show_schemas(conn, regular_files, stdin_tables)
            /\ events' = Append(events, <<"show_schemas", <<>>>>)
            /\ action_taken' = TRUE
       ELSE UNCHANGED <<stdout, events, action_taken>>
    /\ pc' = "resolve"
    /\ UNCHANGED <<cliVars, envVars, stdin_pos, stdin_reads, regular_files,
                   stdin_tables, loadVars, query_opt, query_from_stdin_attempted,
                   stderr, exit_code>>

\* A resolution that prefers the trailing form over --query.
TrailingQueryFirst ==
    IF IsSome(query_after_delimiter) THEN query_after_delimiter ELSE query

\* "cli.query.or(cli.query_after_delimiter)"
CommandLineQuery ==
    IF IsSome(query) THEN query ELSE query_after_delimiter

\* A guard that reads the query from any non-terminal standard input.
MayReadQueryWheneverPiped == ~is_tty

\* "if stdin_tables.is_empty() && atty::isnt(atty::Stream::Stdin)"
MayReadQueryFromStdin == stdin_tables = <<>> /\ ~is_tty

\* "let query_opt = cli.query.or(cli.query_after_delimiter).or_else(..)"
DetermineQuery ==
    /\ pc = "resolve"
    /\ IF IsSome(CommandLineQuery)
       THEN /\ query_opt' = CommandLineQuery
            /\ UNCHANGED <<query_from_stdin_attempted, stdin_pos, stdin_reads>>
       ELSE IF MayReadQueryFromStdin
       THEN LET rd == StdinReadToEnd
            IN  /\ query_from_stdin_attempted' = TRUE
                /\ stdin_pos' = rd.pos
                /\ stdin_reads' = IF rd.ok THEN stdin_reads + 1 ELSE stdin_reads
                /\ query_opt' = IF rd.ok /\ trim(rd.data) # <<>>
                                THEN Some(rd.data) ELSE NoneVal
       ELSE /\ query_opt' = NoneVal
            /\ UNCHANGED <<query_from_stdin_attempted, stdin_pos, stdin_reads>>
    /\ pc' = "query"
    /\ UNCHANGED <<cliVars, envVars, regular_files, stdin_tables, loadVars,
                   action_taken, events, stdout, stderr, exit_code>>

\* A check that also skips the query whenever --schema is given.
ShouldRunQueryUnlessSchema(query_str) == trim(query_str) # <<>> /\ ~schema

\* "if !query_str.trim().is_empty()"
ShouldRunQuery(query_str) == trim(query_str) # <<>>

\* A check with the conjunction written as a disjunction.
EmptyQueryIsFatalUnlessBoth == ~output_db \/ ~schema

\* "if !is_saving_db && !is_showing_schema": an empty query is an error
\* only when no other action is pending.
EmptyQueryIsFatal == ~output_db /\ ~schema

\* "if let Some(query_str) = query_opt { ... }"
HandleQuery ==
    /\ pc = "query"
    /\ IF IsSome(query_opt)
       THEN IF ShouldRunQuery(Unwrap(query_opt))
            THEN \E fmt \in Formats, sq \in BOOLEAN :
                   LET r == run_query(conn, Unwrap(query_opt), fmt, sq)
                   IN  /\ format' = fmt
                       /\ show_sql' = sq
                       /\ events' = events \o r.ev
                       /\ stdout' = stdout \o r.out
                       /\ IF r.ok
                          THEN /\ action_taken' = TRUE
                               /\ pc' = "save"
                               /\ UNCHANGED <<stderr, exit_code>>
                          ELSE /\ Exit(1, << <<"Error", r.err>> >>)
                               /\ UNCHANGED action_taken
            ELSE /\ IF EmptyQueryIsFatal
                    THEN Exit(1, << IF query_from_stdin_attempted
                                    THEN <<"Error", "EmptyQueryFromStdin">>
                                    ELSE <<"Error", "EmptyQueryFromArgs">> >>)
                    ELSE /\ stderr' = Append(stderr,
                                IF query_from_stdin_attempted
                                THEN <<"Warning", "EmptyQueryFromStdin">>
                                ELSE <<"Warning", "EmptyQueryFromArgs">>)
                         /\ pc' = "save"
                         /\ UNCHANGED exit_code
                 /\ UNCHANGED <<format, show_sql, events, stdout, action_taken>>
       ELSE /\ pc' = "save"
            /\ UNCHANGED <<format, show_sql, events, stdout, action_taken,
                           stderr, exit_code>>
    /\ UNCHANGED <<files, query, query_after_delimiter, schema, output_db,
                   envVars, stdin_pos, stdin_reads, regular_files, stdin_tables,
                   loadVars, query_opt, query_from_stdin_attempted>>

\* "if let Some(ref output_db_path) = cli.output_db { save_database(..)? }"
\* Writing the destination file may fail.
SaveOutputDb ==
    /\ pc = "save"
    /\ IF output_db
       THEN \E written \in BOOLEAN :
              /\ events' = Append(events, <<"backup", written>>)
              /\ IF written
                 THEN /\ stderr' = Append(stderr, <<"Info", "DatabaseSaved">>)
                      /\ action_taken' = TRUE
                      /\ pc' = "default"
                      /\ UNCHANGED exit_code
                 ELSE /\ Exit(1, << <<"Error", "SaveFailed">> >>)
                      /\ UNCHANGED action_taken
       ELSE /\ pc' = "default"
            /\ UNCHANGED <<events, stderr, action_taken, exit_code>>
    /\ UNCHANGED <<cliVars, envVars, stdin_pos, stdin_reads, regular_files,
                   stdin_tables, loadVars, query_opt, query_from_stdin_attempted,
                   stdout>>

\* The default action, the "no action" check and main's Ok(()).
\* std::env::args().len() > 1 holds when any file or option was written on
\* the command line; --format and --show-sql may or may not have been.
DefaultActionAndReturn ==
    /\ pc = "default"
    /\ IF ~action_taken /\ (regular_files # <<>> \/ stdin_tables # <<>>)
       THEN /\ stdout' = stdout \o show_schemas(conn, regular_files, stdin_tables)
            /\ events' = Append(events, <<"show_schemas", <<>>>>)
            /\ action_taken' = TRUE
            /\ Exit(0, <<>>)
       ELSE /\ UNCHANGED <<stdout, events, action_taken>>
            /\ IF ~action_taken
               THEN \E other_options \in BOOLEAN :
                      LET args_given ==
                            \/ files # <<>> \/ IsSome(query)
                            \/ IsSome(query_after_delimiter)
                            \/ schema \/ output_db \/ other_options
                      IN  IF args_given \/ query_from_stdin_attempted
                          THEN Exit(1, << <<"Error", "NoActionPerformed">> >>)
                          ELSE Exit(0, <<>>)
               ELSE Exit(0, <<>>)
    /\ UNCHANGED <<cliVars, envVars, stdin_pos, stdin_reads, regular_files,
                   stdin_tables, loadVars, query_opt, query_from_stdin_attempted>>

Next ==
    \/ ProcessFileArguments
    \/ LoadRegularFile
    \/ ReadStdinData
    \/ LoadStdinTable
    \/ HandleLoadResult
    \/ ShowSchemaFlag
    \/ DetermineQuery
    \/ HandleQuery
    \/ SaveOutputDb
    \/ DefaultActionAndReturn

Spec == Init /\ [][Next]_vars

----------------------------------------------------------------------------
\* The two converters on their own: one column type and one cell of that
\* column, taken through polars_to_sqlite_type and convert_any_value_to_sql.

\* The cells a column of the given type holds besides null, as <<tag, payload>>.
\* Integers carry a number, floats and the types without an arm of their own
\* carry their Display text, booleans a truth value, strings their characters.
AnyValuesOf(dtype) ==
    CASE dtype \in {"Int8", "Int16", "Int32", "Int64",
                    "UInt8", "UInt16", "UInt32", "UInt64"} ->
             {<<dtype, n>> : n \in {0, 1, 7}}
      [] dtype \in {"Float32", "Float64"} -> {<<dtype, x>> : x \in {"0.0", "1.5"}}
      [] dtype = "Boolean" -> {<<dtype, b>> : b \in BOOLEAN}
      [] dtype = "String" -> {<<dtype, t>> : t \in {<<>>, <<"x">>}}
      [] dtype = "Null" -> {}
      [] OTHER -> {<<dtype, "display">>}

\* The value bound to the INSERT parameter, as <<storage class, payload>>.
\* The casts to i64 and f64 keep the number (the values here are far from
\* the 64-bit limits).
convert_any_value_to_sql(value) ==
    CASE value[1] = "Null" -> <<"NULL">>
      [] value[1] \in {"Int8", "Int16", "Int32", "Int64",
                       "UInt8", "UInt16", "UInt32", "UInt64"} -> <<"INTEGER", value[2]>>
      [] value[1] \in {"Float32", "Float64"} -> <<"REAL", value[2]>>
      [] value[1] = "Boolean" -> <<"INTEGER", IF value[2] THEN 1 ELSE 0>>
      [] value[1] = "String" -> <<"TEXT", value[2]>>
      [] OTHER -> <<"TEXT", value[2]>>

runVars ==
    <<cliVars, is_tty, stdin_bytes, stdin_ok, stdin_pos, stdin_reads, pc,
      regular_files, stdin_tables, file_idx, stdin_data, table_idx, load_err,
      conn, action_taken, query_opt, query_from_stdin_attempted, events,
      stdout, stderr, exit_code>>

\* No invocation is running; a column type and one of its cells are given.
InitMapper ==
    /\ files = <<>>
    /\ query = NoneVal
    /\ query_after_delimiter = NoneVal
    /\ schema = FALSE
    /\ format = "table"
    /\ show_sql = FALSE
    /\ output_db = FALSE
    /\ is_tty = TRUE
    /\ stdin_bytes = <<>>
    /\ stdin_ok = TRUE
    /\ stdin_pos = 0
    /\ stdin_reads = 0
    /\ pc = "off"
    /\ regular_files = <<>>
    /\ stdin_tables = <<>>
    /\ file_idx = 1
    /\ stdin_data = <<>>
    /\ table_idx = 1
    /\ load_err = NoneVal
    /\ conn = EmptyConn
    /\ action_taken = FALSE
    /\ query_opt = NoneVal
    /\ query_from_stdin_attempted = FALSE
    /\ events = <<>>
    /\ stdout = <<>>
    /\ stderr = <<>>
    /\ exit_code = -1
    /\ mapper_pc = "column"
    /\ dtype_in \in DataTypes
    /\ \/ value_in = <<"Null", <<>>>>
       \/ value_in \in AnyValuesOf(dtype_in)
    /\ storage_class = ""
    /\ stored = <<>>

\* "polars_to_sqlite_type(dtype)" while the CREATE TABLE statement is built
MapColumnType ==
    /\ mapper_pc = "column"
    /\ storage_class' = polars_to_sqlite_type(dtype_in)
    /\ mapper_pc' = "cell"
    /\ UNCHANGED <<runVars, dtype_in, value_in, stored>>

\* "convert_any_value_to_sql(value)" while a row is inserted
ConvertCell ==
    /\ mapper_pc = "cell"
    /\ stored' = convert_any_value_to_sql(value_in)
    /\ mapper_pc' = "done"
    /\ UNCHANGED <<runVars, dtype_in, value_in, storage_class>>

NextMapper ==
    \/ MapColumnType
    \/ ConvertCell

SpecMapper == InitMapper /\ [][NextMapper]_vars

----------------------------------------------------------------------------
\* Vocabulary of the properties.

HasEvent(kind) == \E i \in 1..Len(events) : events[i][1] = kind

EventIndex(kind) == CHOOSE i \in 1..Len(events) : events[i][1] = kind

HasMessage(level, what) ==
    \E i \in 1..Len(stderr) : stderr[i][1] = level /\ stderr[i][2] = what

\* The loads performed so far, in order: <<"attach" | "create", name>>.
Loads == SelectSeq(events, LAMBDA e : e[1] \in {"attach", "create"})

IsPrefix(s, t) == Len(s) <= Len(t) /\ SubSeq(t, 1, Len(s)) = s

\* How a token reads, stated without the classifier.
IsStdinToken(t) ==
    \/ t = TokStdin
    \/ StartsWith(t, StdinPrefix) /\ Len(t) > Len(StdinPrefix)
IsEmptyStdinName(t) == t = StdinPrefix
IsPathToken(t) == t # TokStdin /\ ~StartsWith(t, StdinPrefix)
IsBadToken(t) == IsEmptyStdinName(t) \/ (IsPathToken(t) /\ ~exists(t))

StdinTableOf(t) ==
    IF t = TokStdin THEN <<TokStdin, TokStdin>>
    ELSE <<SubSeq(t, Len(StdinPrefix) + 1, Len(t)), TokStdin>>

PathArgs == SelectSeq(files, IsPathToken)
StdinArgs ==
    LET m == SelectSeq(files, IsStdinToken)
    IN  [i \in 1..Len(m) |-> StdinTableOf(m[i])]

Blank(text) == \A i \in 1..Len(text) : text[i] \in Whitespace

----------------------------------------------------------------------------
\* C1: with no file/stdin tokens and a non-terminal standard input holding
\* at least one byte, the probe of process_file_arguments does not discard
\* the probed byte: the buffer load_all_data reads for the implicit "stdin"
\* table is the complete piped stream, first byte included.
C1_ProbeKeepsFirstByte ==
    (/\ files = <<>>
     /\ ~is_tty
     /\ stdin_bytes # <<>>
     /\ stdin_tables # <<>>
     /\ pc \notin {"classify", "load"})
    => stdin_data = stdin_bytes

----------------------------------------------------------------------------
\* C2: process_file_arguments classifies every token: "stdin" is the stdin
\* table "stdin", "stdin:<name>" the stdin table <name>, "stdin:" an
\* invalid-argument failure, any other token a regular file that must
\* exist (file-not-found otherwise); the first bad token decides the error;
\* on success both lists keep the tokens' relative order and every
\* stdin-style token is accepted.
C2_ClassifiesEveryToken ==
    pc # "classify" =>
      IF \E i \in 1..Len(files) : IsBadToken(files[i])
      THEN LET k == CHOOSE i \in 1..Len(files) :
                      /\ IsBadToken(files[i])
                      /\ \A j \in 1..(i - 1) : ~IsBadToken(files[j])
           IN  /\ pc = "exit"
               /\ exit_code = 1
               /\ stderr = << <<"Error", IF IsEmptyStdinName(files[k])
                                         THEN "InvalidArgument"
                                         ELSE "FileNotFound">> >>
               /\ regular_files = <<>>
               /\ stdin_tables = <<>>
      ELSE /\ regular_files = PathArgs
           /\ files # <<>> => stdin_tables = StdinArgs

C2_Witness ==
    /\ pc = "load"
    /\ files = <<TokStdinA, TokStdin>>
    /\ stdin_tables = << <<<<"a">>, TokStdin>>, <<TokStdin, TokStdin>> >>

----------------------------------------------------------------------------
\* C3: with several stdin tables and piped data, standard input is drained
\* exactly once in the run and every stdin table is built from that one
\* buffer: after a successful load all stdin tables have the same schema
\* and the same number of rows.
C3_StdinTablesShareOneRead ==
    (Len(stdin_tables) >= 2 /\ ~is_tty) =>
      /\ stdin_reads <= 1
      /\ (pc \notin {"classify", "load", "load_stdin_tables"} /\ load_err = NoneVal) =>
           /\ stdin_reads = 1
           /\ \A i \in 1..Len(stdin_tables) :
                /\ stdin_tables[i][1] \in TableNames(conn)
                /\ TableNamed(conn, stdin_tables[i][1]).rows = ReadCsv(stdin_data).rows
                /\ \A j \in 1..Len(stdin_tables) :
                     LET ti == TableNamed(conn, stdin_tables[i][1])
                         tj == TableNamed(conn, stdin_tables[j][1])
                     IN  ti.columns = tj.columns /\ Len(ti.rows) = Len(tj.rows)

C3_Witness ==
    /\ pc = "exit"
    /\ exit_code = 0
    /\ files = <<TokStdinA, TokStdinB>>
    /\ {<<"a">>, <<"b">>} \subseteq TableNames(conn)
    /\ Len(TableNamed(conn, <<"b">>).rows) >= 1

----------------------------------------------------------------------------
----------------------------------------------------------------------------
\* C5: sources are loaded in source argument order: whenever argument A
\* precedes argument B on the command line (regular file, database file or
\* stdin marker), A's table is attached/created before B's.
LoadOfToken(t) ==
    IF IsStdinToken(t) THEN <<"create", StdinTableOf(t)[1]>>
    ELSE IF IsDatabaseFile(t) THEN <<"attach", file_stem(t)>>
    ELSE <<"create", file_stem(t)>>

ArgumentOrderLoads == [i \in 1..Len(files) |-> LoadOfToken(files[i])]

C5_LoadsInArgumentOrder ==
    (pc = "loaded" /\ load_err = NoneVal /\ ~is_tty /\ files # <<>>)
    => Loads = ArgumentOrderLoads

\* C5 as amended: the regular files are loaded first, in argument order,
\* then the stdin tables, in argument order; loading stops at the first
\* source of that sequence that fails.
FilesThenStdinLoads ==
    [i \in 1..Len(PathArgs) |-> LoadOfToken(PathArgs[i])]
    \o [i \in 1..Len(stdin_tables) |-> <<"create", stdin_tables[i][1]>>]

C5_LoadsFilesThenStdinTables ==
    (pc # "classify" /\ \A i \in 1..Len(files) : ~IsBadToken(files[i])) =>
      /\ files # <<>> => stdin_tables = StdinArgs
      /\ IsPrefix(Loads, FilesThenStdinLoads)
      /\ (pc \notin {"load", "load_stdin_tables"} /\ load_err = NoneVal /\ ~is_tty)
           => Loads = FilesThenStdinLoads
      /\ (IsSome(load_err) /\ Unwrap(load_err) \in {"DuplicateTable", "ParseError", "AttachError"})
           => Len(Loads) < Len(FilesThenStdinLoads)

C5_Witness ==
    /\ pc = "loaded"
    /\ files = <<TokStdinB, PathACsv>>
    /\ Loads = << <<"create", <<"a">>>>, <<"create", <<"b">>>> >>

----------------------------------------------------------------------------
\* C6: the loader never overwrites or appends to an existing table on a
\* name collision: a load that would create a table whose name the main
\* schema already holds fails with a duplicate-table error and leaves the
\* connection as it was, a table once created keeps its schema and rows,
\* and the run then aborts.
CreateAttempted ==
    IF /\ pc = "load"
       /\ file_idx <= Len(regular_files)
       /\ ~IsDatabaseFile(regular_files[file_idx])
       /\ ReadCsv(FileContent(regular_files[file_idx])).ok
    THEN {file_stem(regular_files[file_idx])}
    ELSE IF /\ pc = "load_stdin_tables"
            /\ table_idx <= Len(stdin_tables)
            /\ ReadCsv(stdin_data).ok
    THEN {stdin_tables[table_idx][1]}
    ELSE {}

C6_Step ==
    /\ \A n \in CreateAttempted :
         n \in TableNames(conn) =>
           /\ load_err' = Some("DuplicateTable")
           /\ pc' = "loaded"
           /\ conn' = conn
    /\ \A i \in 1..Len(conn.tables) :
         Len(conn'.tables) >= i /\ conn'.tables[i] = conn.tables[i]
    /\ load_err = Some("DuplicateTable") =>
         /\ pc' = "exit"
         /\ exit_code' = 1
         /\ stdout' = <<>>
         /\ conn' = conn

C6_NoOverwriteOnCollision == [][C6_Step]_vars

C6_Witness ==
    /\ pc = "loaded"
    /\ load_err = Some("DuplicateTable")
    /\ files = <<TokStdinA, PathACsv>>
    /\ TableNames(conn) = {<<"a">>}
    /\ TableNamed(conn, <<"a">>).rows = ReadCsv(FileContent(PathACsv)).rows

----------------------------------------------------------------------------
\* C7: when stdin tables are requested: on a non-terminal standard input
\* whose buffer is empty or unreadable, loading fails with a missing-stdin
\* error and no stdin table is created; on an interactive terminal no read
\* is attempted, loading does not fail, no stdin table is created, and a
\* warning (not an error) is reported.
C7_StdinTablesWithoutData ==
    (/\ stdin_tables # <<>>
     /\ pc \notin {"classify", "load", "load_stdin_tables"}
     /\ file_idx > Len(regular_files)) =>
      /\ (~is_tty /\ stdin_data = <<>>) =>
           /\ IsSome(load_err)
           /\ Unwrap(load_err) \in {"MissingStdinData", "IoError"}
           /\ Len(Loads) = Len(regular_files)
      /\ is_tty =>
           /\ load_err = NoneVal
           /\ stdin_reads = 0
           /\ Len(Loads) = Len(regular_files)
           /\ pc # "loaded" =>
                \E i \in 1..Len(stderr) :
                    /\ stderr[i][1] = "Warning"
                    /\ stderr[i][2] \in {"FailedToLoadData", "StdinIsTty",
                                         "MissingStdinData"}

----------------------------------------------------------------------------
\* C8: whenever the query string the run resolves (from --query, from the
\* trailing form, or read from standard input) is empty or whitespace-only
\* and neither --schema nor --output-db was given, the run executes no
\* query and exits with code 1 after an error message naming the
\* empty-query condition.
ResolvedQueryIsBlank ==
    \/ IsSome(query_opt) /\ Blank(Unwrap(query_opt))
    \/ /\ query_from_stdin_attempted
       /\ stdin_ok
       /\ stdin_bytes # <<>>
       /\ Blank(stdin_bytes)

C8_EmptyQueryWithoutActionFails ==
    (pc = "exit" /\ ResolvedQueryIsBlank /\ ~schema /\ ~output_db) =>
      /\ exit_code = 1
      /\ ~HasEvent("compile")
      /\ \/ HasMessage("Error", "EmptyQueryFromArgs")
         \/ HasMessage("Error", "EmptyQueryFromStdin")

----------------------------------------------------------------------------
\* C9: when the resolved query string is empty and --schema or --output-db
\* was requested, the run does not fail: it warns, shows the schemas of the
\* loaded tables as a fallback, still performs the requested action(s) and
\* exits with code 0.
ExportFailed == \E i \in 1..Len(events) : events[i] = <<"backup", FALSE>>

EmptyQueryWithOtherAction ==
    /\ pc = "exit"
    /\ IsSome(query_opt)
    /\ Blank(Unwrap(query_opt))
    /\ schema \/ output_db

C9_EmptyQueryFallsBackToSchemas ==
    (EmptyQueryWithOtherAction /\ ~ExportFailed) =>
      /\ exit_code = 0
      /\ HasMessage("Warning", "EmptyQueryFromArgs")
      /\ HasEvent("show_schemas")
      /\ output_db => HasEvent("backup")

\* C9 as amended: the empty query given on the command line is a warning,
\* no query is run, the requested actions are performed and the exit code
\* is 0 when the export (if any) is written; schemas are shown exactly when
\* --schema was given, there is no schema fallback for --output-db alone.
C9_EmptyQueryWarnsAndProceeds ==
    EmptyQueryWithOtherAction =>
      /\ HasMessage("Warning", "EmptyQueryFromArgs")
      /\ ~query_from_stdin_attempted
      /\ ~HasEvent("compile")
      /\ HasEvent("show_schemas") <=> schema
      /\ output_db => HasEvent("backup")
      /\ exit_code = IF ExportFailed THEN 1 ELSE 0

C9_Witness ==
    /\ EmptyQueryWithOtherAction
    /\ output_db
    /\ ~schema
    /\ exit_code = 0
    /\ conn.tables # <<>>
    /\ stdout = <<>>

----------------------------------------------------------------------------
\* C10: with --schema the schemas are printed instead of running a query:
\* no run with --schema compiles or executes a query, even when a
\* non-empty query string is also supplied.
C10_SchemaFlagSuppressesQuery ==
    schema => ~HasEvent("compile") /\ ~HasEvent("prepare") /\ ~HasEvent("query")

\* C10 as amended: with --schema the schemas are printed first and the
\* query is run as well: a non-empty resolved query is still compiled, and
\* executed unless --show-sql; without one no query is compiled.
C10_SchemaShownThenQueryStillRuns ==
    schema =>
      /\ HasEvent("compile") =>
           /\ HasEvent("show_schemas")
           /\ EventIndex("show_schemas") < EventIndex("compile")
           /\ IsSome(query_opt)
           /\ ~Blank(Unwrap(query_opt))
      /\ pc \in {"resolve", "query", "save", "default"} =>
           /\ HasEvent("show_schemas")
           /\ stdout # <<>>
           /\ stdout[1][1] = "schema"
      /\ (pc \in {"save", "default"} /\ IsSome(query_opt) /\ ~Blank(Unwrap(query_opt))) =>
           /\ HasEvent("compile")
           /\ show_sql \/ HasEvent("query")

C10_Witness ==
    /\ schema
    /\ pc = "exit"
    /\ exit_code = 0
    /\ query = Some(<<"a">>)
    /\ HasEvent("query")
    /\ stdout[1][1] = "schema"
    /\ stdout[Len(stdout)][2] = "row"

----------------------------------------------------------------------------
\* C11: with --show-sql and a query that compiles, the run prints the
\* compiled SQL and never executes it (no statement is prepared, no row is
\* fetched or encoded) and the run counts as having performed an action; a
\* query that fails to compile yields a compile error and a non-zero exit
\* without any SQL being printed.
SqlLines == SelectSeq(stdout, LAMBDA e : e[1] = "sql")
ResultLines == SelectSeq(stdout, LAMBDA e : e[1] \in Formats)

C11_ShowSqlPrintsWithoutExecuting ==
    HasEvent("compile") =>
      LET compiled == compile_prql(Unwrap(query_opt))
      IN  /\ (show_sql /\ compiled.ok) =>
               /\ SqlLines = << <<"sql", "text", compiled.sql>> >>
               /\ ~HasEvent("prepare")
               /\ ~HasEvent("query")
               /\ ResultLines = <<>>
               /\ action_taken
               /\ pc \in {"save", "default", "exit"}
               /\ ~HasMessage("Error", "NoActionPerformed")
               /\ ~HasMessage("Error", "ExecutionError")
          /\ ~compiled.ok =>
               /\ pc = "exit"
               /\ exit_code = 1
               /\ HasMessage("Error", "CompileError")
               /\ SqlLines = <<>>
               /\ ResultLines = <<>>
               /\ ~HasEvent("prepare")

C11_Witness ==
    /\ pc = "exit"
    /\ exit_code = 0
    /\ show_sql
    /\ query = Some(<<"a">>)
    /\ <<"a">> \in TableNames(conn)
    /\ ~schema
    /\ stdout = << <<"sql", "text", <<"a">>>> >>

----------------------------------------------------------------------------
\* C12: the query text of a run is chosen by strict precedence: the --query
\* value if given, otherwise the trailing value if given, otherwise (only
\* with no stdin table classified and a non-terminal standard input) the
\* non-blank contents of standard input; with both --query and the
\* trailing form given the trailing text is ignored and standard input is
\* not read for a query.
QueryResolved == pc \in {"query", "save", "default"} \/ (pc = "exit" /\ HasEvent("compile"))

C12_QueryPrecedence ==
    /\ (IsSome(query) \/ IsSome(query_after_delimiter)) => ~query_from_stdin_attempted
    /\ query_from_stdin_attempted => stdin_tables = <<>> /\ ~is_tty
    /\ QueryResolved =>
         IF IsSome(query) THEN query_opt = query
         ELSE IF IsSome(query_after_delimiter) THEN query_opt = query_after_delimiter
         ELSE IF stdin_tables = <<>> /\ ~is_tty
         THEN /\ query_from_stdin_attempted
              /\ query_opt = IF stdin_ok /\ ~Blank(stdin_bytes)
                             THEN Some(stdin_bytes) ELSE NoneVal
         ELSE query_opt = NoneVal /\ ~query_from_stdin_attempted

C12_Witness ==
    /\ pc = "exit"
    /\ query = Some(<<"a">>)
    /\ query_after_delimiter = Some(<<"!">>)
    /\ ~is_tty
    /\ stdin_tables = <<>>
    /\ stdin_bytes = <<"h","\n","1">>
    /\ stdin_reads = 0
    /\ query_opt = Some(<<"a">>)
    /\ HasEvent("query")

----------------------------------------------------------------------------
\* C13

StorageClasses == {"INTEGER", "REAL", "TEXT", "BLOB"}

IntegerTypes ==
    {"Int8", "Int16", "Int32", "Int64", "UInt8", "UInt16", "UInt32", "UInt64"}

FloatingPointTypes == {"Float32", "Float64"}

ColumnMapped == mapper_pc \in {"cell", "done"}

BooleanCell(b) == value_in[1] = "Boolean" /\ value_in[2] = b

\* A true cell is bound as the integer 1 and a false cell as the integer 0.
BooleanCellStoredAsBit ==
    mapper_pc = "done" =>
        /\ BooleanCell(TRUE) => stored = <<"INTEGER", 1>>
        /\ BooleanCell(FALSE) => stored = <<"INTEGER", 0>>

\* Neither converter writes anything but its own result.
ConvertersOnlyReturn ==
    /\ runVars' = runVars
    /\ dtype_in' = dtype_in
    /\ value_in' = value_in
    /\ storage_class' # storage_class => stored' = stored
    /\ stored' # stored => storage_class' = storage_class

\* C13 as stated: every column type maps to exactly one storage class,
\* integer types to INTEGER, floating-point types to REAL, text to TEXT,
\* boolean to INTEGER, binary to BLOB and every other type to TEXT; a boolean
\* cell is stored as 1 for true and 0 for false.
C13_OnlyFloatsAreReal ==
    /\ ColumnMapped =>
          /\ storage_class \in StorageClasses
          /\ storage_class =
                (CASE dtype_in \in IntegerTypes -> "INTEGER"
                   [] dtype_in \in FloatingPointTypes -> "REAL"
                   [] dtype_in = "String" -> "TEXT"
                   [] dtype_in = "Boolean" -> "INTEGER"
                   [] dtype_in = "Binary" -> "BLOB"
                   [] OTHER -> "TEXT")
    /\ BooleanCellStoredAsBit

\* C13, amended: the mapper is total and writes nothing but its result; it
\* maps integer types to INTEGER, floating-point and decimal types to REAL,
\* text to TEXT, boolean to INTEGER, binary to BLOB and every other type to
\* TEXT; a boolean cell is stored as 1 for true and 0 for false.
C13_FloatsAndDecimalsAreReal ==
    /\ [](/\ ColumnMapped =>
               /\ storage_class \in StorageClasses
               /\ storage_class =
                     (CASE dtype_in \in IntegerTypes -> "INTEGER"
                        [] dtype_in \in FloatingPointTypes \cup {"Decimal"} -> "REAL"
                        [] dtype_in = "String" -> "TEXT"
                        [] dtype_in = "Boolean" -> "INTEGER"
                        [] dtype_in = "Binary" -> "BLOB"
                        [] OTHER -> "TEXT")
          /\ BooleanCellStoredAsBit)
    /\ [][ConvertersOnlyReturn]_vars

C13_Witness ==
    /\ mapper_pc = "done"
    /\ dtype_in = "Boolean"
    /\ BooleanCell(TRUE)
    /\ storage_class = "INTEGER"
    /\ stored = <<"INTEGER", 1>>

----------------------------------------------------------------------------
\* C14

\* The result set the engine returned for the executed statement, in its
\* return order, and the names of its columns.
EngineRows ==
    LET t == TableNamed(conn, events[EventIndex("query")][2])
    IN  [i \in 1..Len(t.rows) |->
            [k \in 1..Len(t.rows[i]) |-> CollectCell(t.rows[i][k])]]

EngineColumns ==
    LET t == TableNamed(conn, events[EventIndex("query")][2])
    IN  [k \in 1..Len(t.columns) |-> t.columns[k][1]]

\* The last n lines of out are the n rows, in the engine's order.
EndsWithRows(out, mode, rows) ==
    /\ Len(out) >= Len(rows)
    /\ \A i \in 1..Len(rows) :
          out[Len(out) - Len(rows) + i] = <<mode, "row", rows[i]>>

\* C14: with zero rows, table mode prints the single line "No results.", csv
\* mode prints the header line only, jsonl and logfmt print nothing; with
\* n >= 1 rows csv prints n+1 lines, jsonl and logfmt n lines, table n+2
\* lines, and the data rows come in the engine's return order.
C14_EncoderLineCounts ==
    HasEvent("query") =>
      LET n   == Len(EngineRows)
          out == ResultLines
      IN  /\ n = 0 =>
                /\ format = "table" => out = << <<"table", "no_results", <<>>>> >>
                /\ format = "csv" => out = << <<"csv", "header", EngineColumns>> >>
                /\ format \in {"jsonl", "logfmt"} => out = <<>>
          /\ n >= 1 =>
                /\ format = "table" =>
                      /\ Len(out) = n + 2
                      /\ out[1] = <<"table", "header", EngineColumns>>
                      /\ out[2][2] = "separator"
                /\ format = "csv" =>
                      /\ Len(out) = n + 1
                      /\ out[1] = <<"csv", "header", EngineColumns>>
                /\ format \in {"jsonl", "logfmt"} => Len(out) = n
                /\ EndsWithRows(out, format, EngineRows)

C14_Witness ==
    /\ pc = "exit"
    /\ exit_code = 0
    /\ HasEvent("query")
    /\ format = "table"
    /\ EngineRows = <<>>
    /\ stdout = << <<"table", "no_results", <<>>>> >>

\* A run that printed a result of two rows as csv.
C14_TwoRowsReached ==
    /\ HasEvent("query")
    /\ format = "csv"
    /\ Len(EngineRows) = 2
    /\ Len(ResultLines) = 3

----------------------------------------------------------------------------
\* C15

\* The query of the run is non-empty text that was read from standard input.
QueryCameFromStdin ==
    /\ query_from_stdin_attempted
    /\ IsSome(query_opt)
    /\ Unwrap(query_opt) # <<>>

\* C15: standard input plays at most one role.  When a stdin table was
\* classified, the query is never read from standard input; when a non-empty
\* query is read from standard input, there is no stdin table, at least one
\* regular file argument was given, and nothing was consumed before the
\* query read, so the query is the complete stream.
C15_StdinHasOneRole ==
    /\ stdin_tables # <<>> => ~query_from_stdin_attempted
    /\ QueryCameFromStdin =>
          /\ stdin_tables = <<>>
          /\ regular_files # <<>>
          /\ \E i \in 1..Len(files) : IsPathToken(files[i])
          /\ stdin_data = <<>>
          /\ stdin_reads = 1
          /\ Unwrap(query_opt) = stdin_bytes
          /\ stdin_pos = Len(stdin_bytes)

C15_Witness ==
    /\ pc = "exit"
    /\ exit_code = 0
    /\ files = <<PathACsv>>
    /\ query = NoneVal
    /\ query_after_delimiter = NoneVal
    /\ QueryCameFromStdin
    /\ stdin_bytes = <<"a">>
    /\ HasEvent("query")

====
